---- MODULE Spec2Model ----
(***************************************************************************)
(* Model of the aspect-ratio processing service: the webhook handler of    *)
(* api/process.js, the helpers of lib/auth.js, lib/imageProcessor.js and   *)
(* lib/supabase.js, with the record store, the object store, the network   *)
(* fetch and the clock as a nondeterministic environment.                  *)
(*                                                                         *)
(* One entity (character) is modelled; every job is a request for it.      *)
(* A handler step is the code between two awaits: the store's reaction to  *)
(* the awaited call and the synchronous continuation of the handler.       *)
(***************************************************************************)
EXTENDS Integers, Sequences, FiniteSets, TLC

\* ---------------------------------------------------------------- bounds
\* Largest value of the millisecond clock (Date.now(), created_at).
MaxClock == 2

\* Largest number of collaborator failures (a rejected write, a failed
\* lookup, download, transform, upload, listing or removal) in one run with
\* two concurrent triggers, and in one run with a single trigger.
MaxFaults == 1

MaxFaultsOne == 3

\* Largest length of a downloaded buffer whose bytes are examined.
MaxBufLen == 4

\* Largest width, height and scale factor detectAspectRatio is examined on.
MaxWidth == 320

MaxHeight == 180

MaxScale == 3

\* Largest number of characters cut from the end of a presented digest, and
\* largest number of characters added after it.
MaxCut == 2

MaxExtra == 2

\* Number of time steps a download is followed for.
MaxTicks == 6

\* Longest side of a source that is one pixel wide or one pixel high.
MaxStrip == 2100

\* The concurrent triggers for the one entity.
Jobs == {1, 2}

\* ------------------------------------------------------------- constants
\* The keys of ASPECT_RATIO_DIMENSIONS, in the table's insertion order.
RatioKeys == <<"1:1", "16:9", "9:16">>

RatioKeySet == {RatioKeys[i] : i \in 1..Len(RatioKeys)}

ASPECT_RATIO_DIMENSIONS ==
  [k \in RatioKeySet |->
     CASE k = "1:1"  -> [width |-> 1024, height |-> 1024]
       [] k = "16:9" -> [width |-> 1024, height |-> 576]
       [] k = "9:16" -> [width |-> 576,  height |-> 1024]]

\* ratioKey.replace(':', 'x')
outputKey(ratioKey) ==
  CASE ratioKey = "1:1"  -> "1x1"
    [] ratioKey = "16:9" -> "16x9"
    [] ratioKey = "9:16" -> "9x16"

OutKeys == {outputKey(k) : k \in RatioKeySet}

\* Number of newest files cleanupOldAspectRatioFiles keeps (.slice(3)).
KeepLatest == 3

\* Substrings the catch block of the handler looks for in error.message.
Keywords == {"not found", "404", "timeout", "TIMEOUT", "too large", "limit",
             "invalid", "malformed"}

\* ------------------------------------------------------ image geometry
Abs(x) == IF x < 0 THEN -x ELSE x

\* Math.round(a / b) for a >= 0, b > 0: nearest integer, halves upwards.
\* The quotient is taken exactly, where the code works in doubles.
RoundDiv(a, b) == (2 * a + b) \div (2 * b)

\* detectAspectRatio with a tolerance in pixels instead of one on the ratio.
detectAspectRatio_Pixels(width, height) ==
  IF Abs(width - height) < 20 THEN "1:1"
  ELSE IF Abs(9 * width - 16 * height) < 180 THEN "16:9"
  ELSE IF Abs(16 * width - 9 * height) < 180 THEN "9:16"
  ELSE "other"

\* detectAspectRatio: Math.abs(ratio - r) < tolerance for r = 1, 16/9, 9/16
\* in this order, as IEEE doubles evaluate it.  Away from a ratio that lies
\* exactly 0.05 from r, the doubles agree with the comparison multiplied out
\* to integers (the distance to the bound is at least 1/(180 * height), the
\* rounding error below 1e-15).  Of the six ratios exactly 0.05 from a
\* target, 21/20, 19/20, 329/180, 49/80 and 41/80 give a difference of
\* 0.050000000000000044, which is not below the double 0.05; 311/180 gives
\* 1.7277777777777779 - 1.7777777777777777 = -0.04999999999999982, which is.
\* The quotient of two integers below 2^53 is rounded once, so every
\* multiple of 311 x 180 gives the same double.
detectAspectRatio(width, height) ==
  IF 20 * Abs(width - height) < height THEN "1:1"
  ELSE IF \/ 20 * Abs(9 * width - 16 * height) < 9 * height
          \/ 180 * width = 311 * height THEN "16:9"
  ELSE IF 20 * Abs(16 * width - 9 * height) < 16 * height THEN "9:16"
  ELSE "other"

\* scale = min(targetWidth / w, targetHeight / h); the width limits exactly
\* when targetWidth / w <= targetHeight / h.
WidthLimits(w, h, tw, th) == tw * h <= th * w

\* Math.round(originalWidth * scale), Math.round(originalHeight * scale).
ScaledDims(w, h, tw, th) ==
  IF WidthLimits(w, h, tw, th)
    THEN [width |-> tw, height |-> RoundDiv(h * tw, w)]
    ELSE [width |-> RoundDiv(w * th, h), height |-> th]

\* sharp(...).resize(tw, th, {fit: 'inside', withoutEnlargement: false}):
\* the largest size of the source's own ratio that fits in the box.
FitInside(w, h, tw, th) == ScaledDims(w, h, tw, th)

\* createPaddedImage that composites the resized image at the top left.
createPaddedImage_TopLeft(w, h, tw, th) ==
  LET d == ScaledDims(w, h, tw, th) IN
  [ok |-> d.width >= 1 /\ d.height >= 1, width |-> tw, height |-> th,
   padded |-> TRUE, newWidth |-> d.width, newHeight |-> d.height,
   left |-> 0, top |-> 0]

\* createPaddedImage: resize to the scaled size, then composite onto a
\* canvas of the target size.  sharp rejects a resize to a zero dimension.
\* Result: the canvas size and the placement of the resized image on it.
createPaddedImage(w, h, tw, th) ==
  LET d == ScaledDims(w, h, tw, th) IN
  IF d.width < 1 \/ d.height < 1
    THEN [ok |-> FALSE, width |-> 0, height |-> 0, padded |-> TRUE,
          newWidth |-> d.width, newHeight |-> d.height, left |-> 0, top |-> 0]
    ELSE [ok |-> TRUE, width |-> tw, height |-> th, padded |-> TRUE,
          newWidth |-> d.width, newHeight |-> d.height,
          left |-> RoundDiv(tw - d.width, 2),
          top  |-> RoundDiv(th - d.height, 2)]

\* The same-ratio branch of processAllAspectRatios.
optimizedImage(w, h, tw, th) ==
  LET d == FitInside(w, h, tw, th) IN
  [ok |-> TRUE, width |-> d.width, height |-> d.height, padded |-> FALSE,
   newWidth |-> d.width, newHeight |-> d.height, left |-> 0, top |-> 0]

\* A loop body that pads every variant.
Variant_AlwaysPad(w, h, k) ==
  createPaddedImage(w, h, ASPECT_RATIO_DIMENSIONS[k].width,
                    ASPECT_RATIO_DIMENSIONS[k].height)

\* One iteration of the loop of processAllAspectRatios for ratio key k.
Variant(w, h, k) ==
  LET dim == ASPECT_RATIO_DIMENSIONS[k] IN
  IF detectAspectRatio(w, h) = k
    THEN optimizedImage(w, h, dim.width, dim.height)
    ELSE createPaddedImage(w, h, dim.width, dim.height)

\* -------------------------------------------------- image signatures
\* The entries of `signatures`, in insertion order, and their bytes.
FormatOrder == <<"jpeg", "png", "webp", "gif">>

signatures ==
  [f \in {"jpeg", "png", "webp", "gif"} |->
     CASE f = "jpeg" -> <<255, 216>>
       [] f = "png"  -> <<137, 80, 78, 71>>
       [] f = "webp" -> <<82, 73, 70, 70>>
       [] f = "gif"  -> <<71, 73, 70>>]

\* imageBuffer.length >= sig.length && sig.every((byte, index) => ...)
SigMatch(buf, sig) ==
  /\ Len(buf) >= Len(sig)
  /\ \A i \in 1..Len(sig) : buf[i] = sig[i]

\* The loop over Object.entries(signatures) from entry i on, with its break.
RECURSIVE detectedFormat(_, _)
detectedFormat(buf, i) ==
  IF i > Len(FormatOrder) THEN "unknown"
  ELSE IF SigMatch(buf, signatures[FormatOrder[i]]) THEN FormatOrder[i]
  ELSE detectedFormat(buf, i + 1)

\* validateImageBuffer that compares the first byte of a signature only.
validateImageBuffer_FirstByte(buf) ==
  LET first == {f \in DOMAIN signatures :
                  Len(buf) >= 1 /\ buf[1] = signatures[f][1]} IN
  IF first = {}
    THEN [valid |-> FALSE, format |-> "none", error |-> "unrecognized"]
    ELSE [valid |-> TRUE, format |-> CHOOSE f \in first : TRUE,
          error |-> "none"]

\* validateImageBuffer(imageBuffer) for a Buffer: valid, format, error.
validateImageBuffer(buf) ==
  IF Len(buf) = 0
    THEN [valid |-> FALSE, format |-> "none", error |-> "empty"]
  ELSE IF detectedFormat(buf, 1) = "unknown"
    THEN [valid |-> FALSE, format |-> "none", error |-> "unrecognized"]
  ELSE [valid |-> TRUE, format |-> detectedFormat(buf, 1), error |-> "none"]

\* ------------------------------------------------------------ messages
\* An error message: the code path that built it (kind), the variant it is
\* about, and the Keywords that occur in its text.  NoMsg is null / ''.
NoMsg == [kind |-> "none", key |-> "-", kw |-> {}]

Msg(kind, key, kw) == [kind |-> kind, key |-> key, kw |-> kw]

\* Keyword content of the error texts the collaborators may report.
EnvKw == {{}, {"not found"}}

\* Keyword content of the error texts of sharp, which createPaddedImage
\* wraps as `Image processing failed: ...`: none, or as in "Input image
\* exceeds pixel limit".
SharpKw == {{}, {"limit"}}

\* ------------------------------------------------------------ requests
\* method, headers, body and environment of one invocation of the handler.
\*   sig:     the x-webhook-signature header: missing, the HMAC of the sent
\*            bytes under the configured secret, or another digest
\*   body:    what the platform hands over as req.body
\*   content: what the sent bytes decode to
\*   canon:   JSON.stringify(req.body) gives back the sent bytes
\*   secret:  process.env.WEBHOOK_SECRET is set
ReqSet ==
  {r \in [method : {"POST", "OPTIONS", "GET"}, ctype : BOOLEAN,
          sig : {"none", "good", "bad"},
          body : {"string", "buffer", "object", "none"},
          content : {"ok", "empty", "malformed", "noid", "nourl"},
          canon : BOOLEAN, secret : BOOLEAN] :
     /\ r.body = "object" => r.content \in {"ok", "noid", "nourl"}
     /\ r.body = "none" => r.content = "empty"
     /\ r.body # "object" => r.canon}

NoReq == [method |-> "-", ctype |-> FALSE, sig |-> "none", body |-> "none",
          content |-> "empty", canon |-> TRUE, secret |-> FALSE]

\* validateWebhookHeaders without the check of the signature header.
validateWebhookHeaders_NoSig(r) == r.ctype

\* validateWebhookHeaders(req.headers).success
validateWebhookHeaders(r) == r.ctype /\ r.sig # "none"

\* The rawBody the handler reconstructs: which bytes, and what they decode to.
rawBody(r) ==
  [bytes |-> IF r.body = "object" /\ ~r.canon THEN "reserialised" ELSE "sent",
   content |-> r.content]

\* verifyWebhookSignature(rawBody, signature, secret)
verifyWebhookSignature(payload, signature, secret) ==
  /\ payload.content # "empty"
  /\ signature # "none"
  /\ secret
  /\ signature = "good"
  /\ payload.bytes = "sent"

\* parseWebhookPayload(rawBody).success
parseWebhookPayload(payload) == payload.content = "ok"

\* ------------------------------------------------------------ responses
\* A storage path characters/<id>/aspect-ratios/<key>-<timestamp>.jpg; the
\* public URL of an object is a function of its path.
Path(k, t) == [key |-> k, ts |-> t]

NoPath == Path("-", 0)

NoUrls == [k \in OutKeys |-> NoPath]

\* cors: the three Access-Control-Allow-* headers were set on the response;
\* urls: data.aspectRatioUrls of a success response.
NoResp == [code |-> 0, body |-> "none", statusCode |-> 0, cors |-> FALSE,
           urls |-> NoUrls]

\* res.status(code).json(createErrorResponse(message, statusCode))
ErrorResp(code, statusCode) ==
  [code |-> code, body |-> "error", statusCode |-> statusCode,
   cors |-> FALSE, urls |-> NoUrls]

\* createErrorResponse's default for its second parameter.
DefaultStatusCode == 400

\* The head of the handler without the signature verification.
HeadResponse_NoVerify(r) ==
  IF r.method = "OPTIONS"
    THEN [code |-> 200, body |-> "none", statusCode |-> 0, cors |-> TRUE,
          urls |-> NoUrls]
  ELSE IF r.method # "POST" THEN ErrorResp(405, 405)
  ELSE IF ~validateWebhookHeaders(r) THEN ErrorResp(400, DefaultStatusCode)
  ELSE IF r.body = "none" THEN ErrorResp(400, DefaultStatusCode)
  ELSE IF ~r.secret THEN ErrorResp(500, DefaultStatusCode)
  ELSE IF ~parseWebhookPayload(rawBody(r)) THEN ErrorResp(400, DefaultStatusCode)
  ELSE NoResp

\* What the synchronous head of the handler answers, NoResp when it goes on
\* to start the job.
HeadResponse(r) ==
  IF r.method = "OPTIONS"
    THEN [code |-> 200, body |-> "none", statusCode |-> 0, cors |-> TRUE,
          urls |-> NoUrls]
  ELSE IF r.method # "POST" THEN ErrorResp(405, 405)
  ELSE IF ~validateWebhookHeaders(r) THEN ErrorResp(400, DefaultStatusCode)
  ELSE IF r.body = "none" THEN ErrorResp(400, DefaultStatusCode)
  ELSE IF ~r.secret THEN ErrorResp(500, DefaultStatusCode)
  ELSE IF ~verifyWebhookSignature(rawBody(r), r.sig, r.secret)
    THEN ErrorResp(401, DefaultStatusCode)
  ELSE IF ~parseWebhookPayload(rawBody(r)) THEN ErrorResp(400, DefaultStatusCode)
  ELSE NoResp

\* The status code the catch block derives from error.message.
CatchStatusCode(m) ==
  IF "not found" \in m.kw \/ "404" \in m.kw THEN 404
  ELSE IF "timeout" \in m.kw \/ "TIMEOUT" \in m.kw THEN 408
  ELSE IF "too large" \in m.kw \/ "limit" \in m.kw THEN 413
  ELSE IF "invalid" \in m.kw \/ "malformed" \in m.kw THEN 400
  ELSE 500

\* ---------------------------------------------------------------- state
VARIABLES
  now,          \* the millisecond clock
  rec,          \* the entity's row in the characters table
  files,        \* the objects under characters/<id>/aspect-ratios
  call,         \* the call of a helper function under examination
  imageBuffer,  \* per job, the downloaded buffer
  env,          \* what the callers may send and sources may be (never changes)
  budget,       \* the number of collaborator failures still to come
  pc,           \* per job, where its handler is suspended
  req,          \* per job, the request
  characterId,  \* per job, whether the handler's characterId is set
  err,          \* per job, the error caught by the catch block
  src,          \* per job, the source image's width and height
  ts,           \* per job, the timestamp of processAllAspectRatios
  images,       \* per job, processedImages
  up,           \* per job and output key, the state of the upload promise
  urls,         \* per job, the keys set in aspectRatioUrls
  firstFail,    \* per job, the first rejection among the upload promises
  resp,         \* per job, the HTTP response
  cl,           \* per job, where its cleanup task is suspended
  clRemove,     \* per job, filesToRemove of its cleanup task
  log,          \* history: per job, the status writes it has awaited
  eff           \* history: per job, the collaborator calls it has issued

vars == <<now, rec, files, env, call, imageBuffer, budget, pc, req, characterId, err, src, ts,
          images, up, urls, firstFail, resp, cl, clRemove, log, eff>>

jobVars == <<pc, req, characterId, err, src, ts, images, up, urls,
             firstFail, resp>>

\* Source images a download may deliver: exact 16:9, square within the
\* tolerance, and a ratio that matches no target.
Sources == {<<1920, 1080>>, <<800, 801>>, <<1000, 400>>}

NoImages ==
  [k \in OutKeys |->
     [ok |-> FALSE, width |-> 0, height |-> 0, padded |-> FALSE,
      newWidth |-> 0, newHeight |-> 0, left |-> 0, top |-> 0]]

FilePaths == {Path(f.key, f.ts) : f \in files}

InitRec == [status |-> "pending", error |-> NoMsg, urls |-> NoUrls,
            orig |-> "none"]

\* No helper function is being examined.
NoCall == [fn |-> "none"]

InitCommon ==
  /\ now = 1
  /\ imageBuffer = [j \in Jobs |-> <<>>]
  /\ rec = InitRec
  /\ pc = [j \in Jobs |-> "idle"]
  /\ req = [j \in Jobs |-> NoReq]
  /\ characterId = [j \in Jobs |-> FALSE]
  /\ err = [j \in Jobs |-> NoMsg]
  /\ src = [j \in Jobs |-> <<0, 0>>]
  /\ ts = [j \in Jobs |-> 0]
  /\ images = [j \in Jobs |-> NoImages]
  /\ up = [j \in Jobs |-> [k \in OutKeys |-> "none"]]
  /\ urls = [j \in Jobs |-> {}]
  /\ firstFail = [j \in Jobs |-> NoMsg]
  /\ resp = [j \in Jobs |-> NoResp]
  /\ cl = [j \in Jobs |-> "none"]
  /\ clRemove = [j \in Jobs |-> {}]
  /\ log = [j \in Jobs |-> <<>>]
  /\ eff = [j \in Jobs |-> {}]

\* The request of the two concurrent triggers: a JSON string body with a
\* good signature.
PlainReq ==
  [method |-> "POST", ctype |-> TRUE, sig |-> "good", body |-> "string",
   content |-> "ok", canon |-> TRUE, secret |-> TRUE]

\* A file an earlier run has left in the entity's folder.
OldFiles == {[key |-> "1x1", ts |-> 0, created |-> 0, by |-> 0]}

Init ==
  /\ InitCommon
  /\ call = NoCall
  /\ files = {}
  /\ env = [reqs |-> [j \in Jobs |-> {PlainReq}], sources |-> [j \in Jobs |-> {<<1920, 1080>>}],
            buffers |-> {<<255, 216>>, <<0>>}]
  /\ budget = MaxFaults

\* The sources of two triggers that fetch images of different classes.
PairSources ==
  [j \in Jobs |-> IF j = 1 THEN {<<1920, 1080>>} ELSE {<<800, 801>>}]

InitPair ==
  /\ InitCommon
  /\ call = NoCall
  /\ files = {}
  /\ env = [reqs |-> [j \in Jobs |-> {PlainReq}], sources |-> PairSources,
            buffers |-> {<<255, 216>>, <<0>>}]
  /\ budget = MaxFaults

InitOne ==
  /\ InitCommon
  /\ call = NoCall
  /\ files = OldFiles
  /\ env = [reqs |-> [j \in Jobs |-> IF j = 1 THEN ReqSet ELSE {}],
            sources |-> [j \in Jobs |-> Sources],
            buffers |-> {<<255, 216>>, <<0>>, <<>>}]
  /\ budget = MaxFaultsOne

\* The bytes a signature has at index i (from 1), and a byte of none.
PosBytes(i) ==
  {signatures[f][i] : f \in {g \in DOMAIN signatures : Len(signatures[g]) >= i}}
    \cup {0}

\* The buffers of up to MaxBufLen bytes that agree with the signatures, or
\* differ from them, index by index.
Buffers ==
  UNION {{b \in [1..n -> UNION {PosBytes(i) : i \in 1..n}] :
            \A i \in 1..n : b[i] \in PosBytes(i)} : n \in 0..MaxBufLen}

InitImage ==
  /\ InitCommon
  /\ call = NoCall
  /\ files = OldFiles
  /\ env = [reqs |-> [j \in Jobs |-> IF j = 1 THEN {PlainReq} ELSE {}],
            sources |-> [j \in Jobs |-> {<<1920, 1080>>}], buffers |-> Buffers]
  /\ budget = MaxFaults

\* A collaborator failure uses up one of the failures still to come.
Fault(failed) ==
  IF failed THEN budget > 0 /\ budget' = budget - 1 ELSE UNCHANGED budget

\* ------------------------------------------------------- record store
\* updateAspectRatioStatus that never stores the error message.
updateAspectRatioStatus_NoCause(r, status, errorMessage) ==
  [r EXCEPT !.status = status]

\* The update of updateAspectRatioStatus once the store accepts it.
updateAspectRatioStatus(r, status, errorMessage) ==
  [r EXCEPT !.status = status,
            !.error = IF errorMessage # NoMsg THEN errorMessage ELSE @]

\* An update that keeps a URL the record already holds.
updateCharacterAspectRatios_Merge(r, aspectRatioUrls, originalAspectRatio) ==
  [r EXCEPT !.urls = [k \in OutKeys |->
                        IF r.urls[k] # NoPath THEN r.urls[k]
                        ELSE aspectRatioUrls[k]],
            !.orig = originalAspectRatio,
            !.status = "completed"]

\* The update of updateCharacterAspectRatios once the store accepts it.
updateCharacterAspectRatios(r, aspectRatioUrls, originalAspectRatio) ==
  [r EXCEPT !.urls = aspectRatioUrls,
            !.orig = originalAspectRatio,
            !.status = "completed"]

\* aspectRatioUrls of job j as the object the handler passes on: the public
\* URL of each uploaded variant, undefined for a key no upload has set.
aspectRatioUrls(j) ==
  [k \in OutKeys |-> IF k \in urls[j] THEN Path(k, ts[j]) ELSE NoPath]

\* --------------------------------------------------------- the handler
\* An entry of the history of status writes: the status and cause passed
\* to the record store, and whether the store accepted the write.
Write(status, cause, ok) == [status |-> status, cause |-> cause, ok |-> ok]

\* The status values job j has persisted, in order.
Persisted(j) ==
  LET Accepted(w) == w.ok
      acc == SelectSeq(log[j], Accepted)
  IN [i \in 1..Len(acc) |-> acc[i].status]

\* An exception reaches the catch block: it keeps the error and, as
\* characterId is set, issues the failed status write and awaits it.
Throw(j, m) ==
  /\ err' = [err EXCEPT ![j] = m]
  /\ pc' = [pc EXCEPT ![j] = "w_catch"]
  /\ eff' = [eff EXCEPT ![j] = @ \cup {"status"}]

\* A handler that asks for the status write before it looks at the method.
Receive_StatusFirst(j, r) ==
  /\ pc[j] = "idle"
  /\ \A i \in Jobs : i < j => pc[i] # "idle"
  /\ UNCHANGED budget
  /\ r \in env.reqs[j]
  /\ req' = [req EXCEPT ![j] = r]
  /\ IF HeadResponse(r) # NoResp
       THEN /\ resp' = [resp EXCEPT ![j] = HeadResponse(r)]
            /\ pc' = [pc EXCEPT ![j] = "done"]
            /\ eff' = [eff EXCEPT ![j] = @ \cup {"status"}]
            /\ UNCHANGED characterId
       ELSE /\ characterId' = [characterId EXCEPT ![j] = TRUE]
            /\ pc' = [pc EXCEPT ![j] = "w_processing"]
            /\ eff' = [eff EXCEPT ![j] = @ \cup {"status"}]
            /\ UNCHANGED resp
  /\ UNCHANGED <<now, rec, files, env, call, imageBuffer, err, src, ts, images, up, urls,
                 firstFail, cl, clRemove, log>>

\* handler, lines 27-96: everything up to the first await.  Jobs are
\* numbered in the order in which their requests arrive.
Receive(j, r) ==
  /\ pc[j] = "idle"
  /\ \A i \in Jobs : i < j => pc[i] # "idle"
  /\ UNCHANGED budget
  /\ r \in env.reqs[j]
  /\ req' = [req EXCEPT ![j] = r]
  /\ IF HeadResponse(r) # NoResp
       THEN /\ resp' = [resp EXCEPT ![j] = HeadResponse(r)]
            /\ pc' = [pc EXCEPT ![j] = "done"]
            /\ UNCHANGED <<characterId, eff>>
       ELSE /\ characterId' = [characterId EXCEPT ![j] = TRUE]
            /\ pc' = [pc EXCEPT ![j] = "w_processing"]
            /\ eff' = [eff EXCEPT ![j] = @ \cup {"status"}]
            /\ UNCHANGED resp
  /\ UNCHANGED <<now, rec, files, env, call, imageBuffer, err, src, ts, images, up, urls,
                 firstFail, cl, clRemove, log>>

\* await updateAspectRatioStatus(characterId, 'processing'), line 96.
StatusProcessing(j, ok, kw) ==
  /\ pc[j] = "w_processing"
  /\ Fault(~ok)
  /\ IF ok
       THEN /\ rec' = updateAspectRatioStatus(rec, "processing", NoMsg)
            /\ pc' = [pc EXCEPT ![j] = "get_char"]
            /\ eff' = [eff EXCEPT ![j] = @ \cup {"lookup"}]
            /\ UNCHANGED err
       ELSE /\ Throw(j, Msg("status", "-", kw))
            /\ UNCHANGED rec
  /\ log' = [log EXCEPT ![j] = Append(@, Write("processing", NoMsg, ok))]
  /\ UNCHANGED <<now, files, env, call, imageBuffer, req, characterId, src, ts, images, up,
                 urls, firstFail, resp, cl, clRemove>>

\* await getCharacterById(characterId), lines 100-104.
GetCharacter(j, ok) ==
  /\ pc[j] = "get_char"
  /\ Fault(~ok)
  /\ IF ok
       THEN /\ pc' = [pc EXCEPT ![j] = "download"]
            /\ eff' = [eff EXCEPT ![j] = @ \cup {"download"}]
       ELSE /\ pc' = [pc EXCEPT ![j] = "w_notfound"]
            /\ eff' = [eff EXCEPT ![j] = @ \cup {"status"}]
  /\ UNCHANGED <<now, rec, files, env, call, imageBuffer, req, characterId, err, src, ts,
                 images, up, urls, firstFail, resp, cl, clRemove, log>>

\* The early failure without its return: after the accepted write the
\* handler runs on into the catch block.
EarlyFail_FallThrough(j, at, kind, code, ok, kw) ==
  /\ pc[j] = at
  /\ Fault(~ok)
  /\ rec' = IF ok THEN updateAspectRatioStatus(rec, "failed", Msg(kind, "-", {}))
             ELSE rec
  /\ Throw(j, Msg("status", "-", kw))
  /\ log' = [log EXCEPT ![j] = Append(@, Write("failed", Msg(kind, "-", {}), ok))]
  /\ UNCHANGED <<now, files, env, call, imageBuffer, req, characterId, src, ts, images, up,
                 urls, firstFail, resp, cl, clRemove>>

\* await updateAspectRatioStatus(id, 'failed', <fixed message>) followed by
\* return res.status(code).json(createErrorResponse(message)): lines 104-105
\* and 117-118.
EarlyFail(j, at, kind, code, ok, kw) ==
  /\ pc[j] = at
  /\ Fault(~ok)
  /\ IF ok
       THEN /\ rec' = updateAspectRatioStatus(rec, "failed", Msg(kind, "-", {}))
            /\ resp' = [resp EXCEPT ![j] = ErrorResp(code, DefaultStatusCode)]
            /\ pc' = [pc EXCEPT ![j] = "done"]
            /\ UNCHANGED <<err, eff>>
       ELSE /\ Throw(j, Msg("status", "-", kw))
            /\ UNCHANGED <<rec, resp>>
  /\ log' = [log EXCEPT ![j] = Append(@, Write("failed", Msg(kind, "-", {}), ok))]
  /\ UNCHANGED <<now, files, env, call, imageBuffer, req, characterId, src, ts, images, up,
                 urls, firstFail, cl, clRemove>>

NotFoundWrite(j, ok, kw) == EarlyFail(j, "w_notfound", "notfound", 404, ok, kw)

InvalidWrite(j, ok, kw) == EarlyFail(j, "w_invalid", "invalidimage", 400, ok, kw)

\* What a download may end in: a buffer, an abort by the timeout, a 404
\* answer, another non-ok answer.
DownloadOutcomes == {"buffer", "abort", "http404", "http500"}

\* error.message of a failed download, the outcome kept in its key: the
\* AbortError of controller.abort() ("This operation was aborted") holds
\* none of the Keywords, `HTTP 404: ...` holds "404".
DownloadError(out) ==
  Msg("download", out, IF out = "http404" THEN {"404"} ELSE {})

\* await downloadImage(...), validateImageBuffer, lines 110-117.
Download(j, out, buf) ==
  /\ pc[j] = "download"
  /\ Fault(out # "buffer")
  /\ IF out # "buffer"
       THEN /\ Throw(j, DownloadError(out))
            /\ UNCHANGED imageBuffer
       ELSE /\ imageBuffer' = [imageBuffer EXCEPT ![j] = buf]
            /\ IF validateImageBuffer(buf).valid
                 THEN /\ pc' = [pc EXCEPT ![j] = "metadata"]
                      /\ UNCHANGED eff
                 ELSE /\ pc' = [pc EXCEPT ![j] = "w_invalid"]
                      /\ eff' = [eff EXCEPT ![j] = @ \cup {"status"}]
            /\ UNCHANGED err
  /\ UNCHANGED <<now, rec, files, env, call, req, characterId, src, ts, images,
                 up, urls, firstFail, resp, cl, clRemove, log>>

\* await getImageMetadata(imageBuffer), line 124.
Metadata(j, ok, dims) ==
  /\ pc[j] = "metadata"
  /\ Fault(~ok)
  /\ IF ok
       THEN /\ src' = [src EXCEPT ![j] = dims]
            /\ pc' = [pc EXCEPT ![j] = "process"]
            /\ UNCHANGED <<err, eff>>
       ELSE /\ Throw(j, Msg("metadata", "-", {}))
            /\ UNCHANGED src
  /\ UNCHANGED <<now, rec, files, env, call, imageBuffer, req, characterId, ts, images, up,
                 urls, firstFail, resp, cl, clRemove, log>>

\* processedImages of processAllAspectRatios for a source of size dims.
processedImages(dims) ==
  [k \in OutKeys |->
     Variant(dims[1], dims[2], CHOOSE r \in RatioKeySet : outputKey(r) = k)]

\* A handler that starts the uploads although the transform has failed.
Process_UploadAnyway(j, ok, kw) ==
  /\ pc[j] = "process"
  /\ Fault(~ok)
  /\ images' = [images EXCEPT ![j] = processedImages(src[j])]
  /\ ts' = [ts EXCEPT ![j] = now]
  /\ up' = [up EXCEPT ![j] = [k \in OutKeys |-> "pending"]]
  /\ IF ok
       THEN /\ pc' = [pc EXCEPT ![j] = "uploads"]
            /\ eff' = [eff EXCEPT ![j] = @ \cup {"upload"}]
            /\ UNCHANGED err
       ELSE /\ err' = [err EXCEPT ![j] = Msg("transform", "-", kw)]
            /\ pc' = [pc EXCEPT ![j] = "w_catch"]
            /\ eff' = [eff EXCEPT ![j] = @ \cup {"upload", "status"}]
  /\ UNCHANGED <<now, rec, files, env, call, imageBuffer, req, characterId,
                 src, urls, firstFail, resp, cl, clRemove, log>>

\* await processAllAspectRatios(imageBuffer, characterId), line 134, and the
\* loop that starts the three uploads, lines 141-155.  ok: sharp raises no
\* error of its own; kw: the keywords of the error it raises.
Process(j, ok, kw) ==
  /\ pc[j] = "process"
  /\ Fault(~ok)
  /\ LET imgs == processedImages(src[j]) IN
     IF ok /\ \A k \in OutKeys : imgs[k].ok
       THEN /\ images' = [images EXCEPT ![j] = imgs]
            /\ ts' = [ts EXCEPT ![j] = now]
            /\ up' = [up EXCEPT ![j] = [k \in OutKeys |-> "pending"]]
            /\ pc' = [pc EXCEPT ![j] = "uploads"]
            /\ eff' = [eff EXCEPT ![j] = @ \cup {"upload"}]
            /\ UNCHANGED err
       ELSE /\ Throw(j, Msg("transform", "-", kw))
            /\ UNCHANGED <<images, ts, up>>
  /\ UNCHANGED <<now, rec, files, env, call, imageBuffer, req, characterId, src, urls,
                 firstFail, resp, cl, clRemove, log>>

\* uploadImageToStorage for output key k settles, lines 145-152: the object
\* store takes the file (upsert: false, so never over an existing path) and
\* the .then callback sets aspectRatioUrls[k], or the promise rejects.
UploadResolve(j, k, ok, kw) ==
  /\ up[j][k] = "pending"
  /\ ok => Path(k, ts[j]) \notin FilePaths
  /\ Fault(~ok /\ Path(k, ts[j]) \notin FilePaths)
  /\ IF ok
       THEN /\ files' = files \cup
                 {[key |-> k, ts |-> ts[j], created |-> now, by |-> j]}
            /\ up' = [up EXCEPT ![j][k] = "ok"]
            /\ urls' = [urls EXCEPT ![j] = @ \cup {k}]
            /\ UNCHANGED firstFail
       ELSE /\ up' = [up EXCEPT ![j][k] = "failed"]
            /\ firstFail' = [firstFail EXCEPT ![j] =
                 IF @ = NoMsg THEN Msg("upload", k, kw) ELSE @]
            /\ UNCHANGED <<files, urls>>
  /\ UNCHANGED <<now, rec, env, call, imageBuffer, pc, req, characterId, err, src, ts,
                 images, resp, cl, clRemove, log, eff>>

\* The barrier as Promise.allSettled: resumes when no upload is pending
\* and ignores the rejections.
Barrier_Settled(j) ==
  /\ pc[j] = "uploads"
  /\ UNCHANGED budget
  /\ \A k \in OutKeys : up[j][k] # "pending"
  /\ pc' = [pc EXCEPT ![j] = "w_update"]
  /\ eff' = [eff EXCEPT ![j] = @ \cup {"update"}]
  /\ UNCHANGED <<now, rec, files, env, call, imageBuffer, req, characterId, err, src, ts, images,
                 up, urls, firstFail, resp, cl, clRemove, log>>

\* await Promise.all(uploadPromises), line 157: resumes when all three
\* have fulfilled, or throws the first rejection as soon as there is one.
Barrier(j) ==
  /\ pc[j] = "uploads"
  /\ UNCHANGED budget
  /\ IF firstFail[j] # NoMsg
       THEN Throw(j, firstFail[j])
       ELSE /\ \A k \in OutKeys : up[j][k] = "ok"
            /\ pc' = [pc EXCEPT ![j] = "w_update"]
            /\ eff' = [eff EXCEPT ![j] = @ \cup {"update"}]
            /\ UNCHANGED err
  /\ UNCHANGED <<now, rec, files, env, call, imageBuffer, req, characterId, src, ts, images,
                 up, urls, firstFail, resp, cl, clRemove, log>>

\* The record update without the cleanup call.
UpdateRecord_NoCleanup(j, ok, kw) ==
  /\ pc[j] = "w_update"
  /\ Fault(~ok)
  /\ IF ok
       THEN /\ rec' = updateCharacterAspectRatios(rec, aspectRatioUrls(j),
                        detectAspectRatio(src[j][1], src[j][2]))
            /\ resp' = [resp EXCEPT ![j] =
                 [code |-> 200, body |-> "success", statusCode |-> 0,
                  cors |-> FALSE, urls |-> aspectRatioUrls(j)]]
            /\ pc' = [pc EXCEPT ![j] = "done"]
            /\ UNCHANGED <<err, eff>>
       ELSE /\ Throw(j, Msg("update", "-", kw))
            /\ UNCHANGED <<rec, resp>>
  /\ log' = [log EXCEPT ![j] = Append(@, Write("completed", NoMsg, ok))]
  /\ UNCHANGED <<now, files, env, call, imageBuffer, req, characterId, src, ts, images, up,
                 urls, firstFail, cl, clRemove>>

\* await updateCharacterAspectRatios(...), then the cleanup call and the
\* success response, lines 162-188.
UpdateRecord(j, ok, kw) ==
  /\ pc[j] = "w_update"
  /\ Fault(~ok)
  /\ IF ok
       THEN /\ rec' = updateCharacterAspectRatios(rec, aspectRatioUrls(j),
                        detectAspectRatio(src[j][1], src[j][2]))
            /\ cl' = [cl EXCEPT ![j] = "list"]
            /\ eff' = [eff EXCEPT ![j] = @ \cup {"cleanup"}]
            /\ resp' = [resp EXCEPT ![j] =
                 [code |-> 200, body |-> "success", statusCode |-> 0,
                  cors |-> FALSE, urls |-> aspectRatioUrls(j)]]
            /\ pc' = [pc EXCEPT ![j] = "done"]
            /\ UNCHANGED err
       ELSE /\ Throw(j, Msg("update", "-", kw))
            /\ UNCHANGED <<rec, cl, resp>>
  /\ log' = [log EXCEPT ![j] = Append(@, Write("completed", NoMsg, ok))]
  /\ UNCHANGED <<now, files, env, call, imageBuffer, req, characterId, src, ts, images, up,
                 urls, firstFail, clRemove>>

\* The catch block, lines 190-220: the awaited failed status write, whose
\* own failure is only logged, then the response.
CatchWrite(j, ok) ==
  /\ pc[j] = "w_catch"
  /\ Fault(~ok)
  /\ rec' = IF ok THEN updateAspectRatioStatus(rec, "failed", err[j]) ELSE rec
  /\ log' = [log EXCEPT ![j] = Append(@, Write("failed", err[j], ok))]
  /\ resp' = [resp EXCEPT ![j] =
       ErrorResp(CatchStatusCode(err[j]), CatchStatusCode(err[j]))]
  /\ pc' = [pc EXCEPT ![j] = "done"]
  /\ UNCHANGED <<now, files, env, call, imageBuffer, req, characterId, err, src, ts, images,
                 up, urls, firstFail, cl, clRemove, eff>>

\* ------------------------------------------------------------- cleanup
\* The removal sets of a cleanup that sorts by created_at ascending and so
\* keeps the oldest files.
RemovalSets_Oldest(listing) ==
  {R \in SUBSET listing :
     /\ Cardinality(listing \ R) =
          IF Cardinality(listing) > KeepLatest THEN KeepLatest
          ELSE Cardinality(listing)
     /\ \A f \in R : \A g \in listing \ R : f.created >= g.created}

\* The sets filesToRemove may be: all but the KeepLatest first of the
\* listing sorted by created_at descending.  Files of equal created_at stay
\* in the order of the listing, which the code does not determine.
RemovalSets(listing) ==
  {R \in SUBSET listing :
     /\ Cardinality(listing \ R) =
          IF Cardinality(listing) > KeepLatest THEN KeepLatest
          ELSE Cardinality(listing)
     /\ \A f \in R : \A g \in listing \ R : f.created <= g.created}

\* A cleanup whose listing error is fed back into the job's status.
CleanupList_Feedback(j, ok, R) ==
  /\ cl[j] = "list"
  /\ Fault(~ok)
  /\ IF ok
       THEN /\ R \in RemovalSets(files)
            /\ clRemove' = [clRemove EXCEPT ![j] = {Path(f.key, f.ts) : f \in R}]
            /\ cl' = [cl EXCEPT ![j] = IF R = {} THEN "done" ELSE "remove"]
            /\ eff' = [eff EXCEPT ![j] = IF R = {} THEN @ ELSE @ \cup {"remove"}]
            /\ UNCHANGED rec
       ELSE /\ R = {}
            /\ cl' = [cl EXCEPT ![j] = "done"]
            /\ rec' = updateAspectRatioStatus(rec, "failed", Msg("cleanup", "-", {}))
            /\ UNCHANGED <<clRemove, eff>>
  /\ UNCHANGED <<now, files, env, call, imageBuffer, jobVars, log>>

\* cleanupOldAspectRatioFiles up to the remove call: the listing settles.
CleanupList(j, ok, R) ==
  /\ cl[j] = "list"
  /\ Fault(~ok)
  /\ IF ok
       THEN /\ R \in RemovalSets(files)
            /\ clRemove' = [clRemove EXCEPT ![j] = {Path(f.key, f.ts) : f \in R}]
            /\ cl' = [cl EXCEPT ![j] = IF R = {} THEN "done" ELSE "remove"]
            /\ eff' = [eff EXCEPT ![j] = IF R = {} THEN @ ELSE @ \cup {"remove"}]
       ELSE /\ R = {}
            /\ cl' = [cl EXCEPT ![j] = "done"]
            /\ UNCHANGED <<clRemove, eff>>
  /\ UNCHANGED <<now, rec, files, env, call, imageBuffer, jobVars, log>>

\* The remove call of cleanupOldAspectRatioFiles settles.
CleanupRemove(j, ok) ==
  /\ cl[j] = "remove"
  /\ Fault(~ok)
  /\ files' = IF ok THEN {f \in files : Path(f.key, f.ts) \notin clRemove[j]}
              ELSE files
  /\ cl' = [cl EXCEPT ![j] = "done"]
  /\ UNCHANGED <<now, rec, env, call, imageBuffer, jobVars, clRemove, log, eff>>

\* Time passes.  Only processAllAspectRatios (Date.now()) and the object
\* store (created_at) read the clock, and only the order of the values
\* read matters: the clock moves on from a value that has been read, while
\* a job is still to read it.
Tick ==
  /\ now < MaxClock
  /\ \/ \E j \in Jobs : ts[j] = now
     \/ \E f \in files : f.created = now
  /\ \E j \in Jobs : pc[j] = "process" \/ \E k \in OutKeys : up[j][k] = "pending"
  /\ now' = now + 1
  /\ UNCHANGED <<rec, files, env, call, imageBuffer, budget, jobVars, cl, clRemove, log, eff>>

\* --------------------------------------------------------------- specs
DoReceive == \E j \in Jobs : \E r \in env.reqs[j] : Receive(j, r)

DoStatusProcessing ==
  \E j \in Jobs : \E ok \in BOOLEAN : \E kw \in EnvKw :
    (ok => kw = {}) /\ StatusProcessing(j, ok, kw)

DoGetCharacter == \E j \in Jobs : \E ok \in BOOLEAN : GetCharacter(j, ok)

DoNotFoundWrite ==
  \E j \in Jobs : \E ok \in BOOLEAN : \E kw \in EnvKw :
    (ok => kw = {}) /\ NotFoundWrite(j, ok, kw)

DoDownload ==
  \E j \in Jobs : \E out \in DownloadOutcomes :
    \E buf \in IF out = "buffer" THEN env.buffers ELSE {<<>>} :
      Download(j, out, buf)

DoInvalidWrite ==
  \E j \in Jobs : \E ok \in BOOLEAN : \E kw \in EnvKw :
    (ok => kw = {}) /\ InvalidWrite(j, ok, kw)

DoMetadata ==
  \E j \in Jobs : \E ok \in BOOLEAN : \E dims \in env.sources[j] :
    Metadata(j, ok, dims)

DoProcess ==
  \E j \in Jobs : \E ok \in BOOLEAN : \E kw \in SharpKw :
    (ok => kw = {}) /\ Process(j, ok, kw)

DoUploadResolve ==
  \E j \in Jobs : \E k \in OutKeys : \E ok \in BOOLEAN : \E kw \in EnvKw :
    (ok => kw = {}) /\ UploadResolve(j, k, ok, kw)

DoBarrier == \E j \in Jobs : Barrier(j)

DoUpdateRecord ==
  \E j \in Jobs : \E ok \in BOOLEAN : \E kw \in EnvKw :
    (ok => kw = {}) /\ UpdateRecord(j, ok, kw)

DoCatchWrite == \E j \in Jobs : \E ok \in BOOLEAN : CatchWrite(j, ok)

DoCleanupList ==
  \E j \in Jobs : \E ok \in BOOLEAN :
    \E R \in IF cl[j] = "list" /\ ok THEN RemovalSets(files) ELSE {{}} :
      CleanupList(j, ok, R)

DoCleanupRemove == \E j \in Jobs : \E ok \in BOOLEAN : CleanupRemove(j, ok)

Next ==
  \/ DoReceive
  \/ DoStatusProcessing
  \/ DoGetCharacter
  \/ DoNotFoundWrite
  \/ DoDownload
  \/ DoInvalidWrite
  \/ DoMetadata
  \/ DoProcess
  \/ DoUploadResolve
  \/ DoBarrier
  \/ DoUpdateRecord
  \/ DoCatchWrite
  \/ DoCleanupList
  \/ DoCleanupRemove
  \/ Tick

\* Two concurrent triggers with a well-formed request.
Spec == Init /\ [][Next]_vars

\* Two concurrent triggers whose images are of different classes.
SpecPair == InitPair /\ [][Next]_vars

\* One trigger with an arbitrary request, for an entity whose folder holds
\* a file of an earlier run.
SpecOne == InitOne /\ [][Next]_vars

\* One trigger with a well-formed request whose download delivers any of
\* Buffers.
SpecImage == InitImage /\ [][Next]_vars

TypeOK ==
  /\ now \in 1..MaxClock
  /\ budget \in 0..MaxFaultsOne + MaxFaults
  /\ rec.status \in {"pending", "processing", "completed", "failed"}
  /\ \A j \in Jobs : pc[j] \in {"idle", "w_processing", "get_char",
       "w_notfound", "download", "w_invalid", "metadata", "process",
       "uploads", "w_update", "w_catch", "done"}

\* ------------------------------------------- helpers on their own
\* The handler's variables, which a call of a helper leaves alone.
handlerVars == <<now, rec, files, env, imageBuffer, budget, jobVars, cl,
                 clRemove, log, eff>>

\* No request has arrived and none will.
InitIdle ==
  /\ InitCommon
  /\ files = {}
  /\ env = [reqs |-> [j \in Jobs |-> {}], sources |-> [j \in Jobs |-> {}],
            buffers |-> {}]
  /\ budget = 0

\* The sizes named as examples of the four classes.
LiteralCases ==
  {<<1024, 1024>>, <<1920, 1080>>, <<1080, 1920>>, <<800, 801>>, <<1000, 400>>}

DetectInputs == ((1..MaxWidth) \X (1..MaxHeight)) \cup LiteralCases

InitDetect ==
  /\ InitIdle
  /\ call \in {[fn |-> "detectAspectRatio", width |-> d[1], height |-> d[2],
                 k |-> k, ratio |-> "unset", scaled |-> "unset",
                 done |-> FALSE] : d \in DetectInputs, k \in 1..MaxScale}

\* detectAspectRatio(width, height) and detectAspectRatio(k * width,
\* k * height) return.
Detect ==
  /\ call.fn = "detectAspectRatio" /\ ~call.done
  /\ call' = [call EXCEPT
       !.ratio = detectAspectRatio(call.width, call.height),
       !.scaled = detectAspectRatio(call.k * call.width, call.k * call.height),
       !.done = TRUE]
  /\ UNCHANGED handlerVars

NextDetect == Detect

\* detectAspectRatio on its own, for every size of DetectInputs.
SpecDetect == InitDetect /\ [][NextDetect]_vars

\* A text is a sequence of characters; the empty text is <<>>.
HexLower == <<"0", "1", "2", "3", "4", "5", "6", "7", "8", "9",
              "a", "b", "c", "d", "e", "f">>

HexUpper == <<"A", "B", "C", "D", "E", "F">>

IsHex(c) ==
  \/ \E i \in 1..Len(HexLower) : HexLower[i] = c
  \/ \E i \in 1..Len(HexUpper) : HexUpper[i] = c

HexVal(c) ==
  IF \E i \in 1..Len(HexLower) : HexLower[i] = c
    THEN (CHOOSE i \in 1..Len(HexLower) : HexLower[i] = c) - 1
    ELSE (CHOOSE i \in 1..Len(HexUpper) : HexUpper[i] = c) + 9

\* Buffer.from(str, 'hex') from character i on: one byte per pair of hex
\* digits, cut off at the first pair that is not one and at a single last
\* character.
RECURSIVE hexBytes(_, _)
hexBytes(str, i) ==
  IF i + 1 > Len(str) THEN <<>>
  ELSE IF ~IsHex(str[i]) \/ ~IsHex(str[i + 1]) THEN <<>>
  ELSE <<16 * HexVal(str[i]) + HexVal(str[i + 1])>> \o hexBytes(str, i + 2)

BufferFromHex(str) == hexBytes(str, 1)

\* Number of bytes of a SHA-256 digest.
DigestBytes == 32

\* The payloads and secrets of the calls examined: '' and two texts each,
\* and the number that stands for a text in the digest.
Payloads == {"", "p", "q"}

Secrets == {"", "s", "t"}

TextCode(x) ==
  CASE x = "" -> 0 [] x = "p" -> 1 [] x = "q" -> 2 [] x = "s" -> 3 [] x = "t" -> 4

\* crypto.createHmac('sha256', secret).update(payload, 'utf8').digest('hex'):
\* 2 * DigestBytes lower-case hex digits, a different text for every pair
\* of payload and secret.
hmacHex(payload, secret) ==
  [i \in 1..(2 * DigestBytes) |->
     HexLower[1 + ((TextCode(payload) * (i + 3) + TextCode(secret) * (2 * i + 5)
                     + i * i) % 16)]]

Sha256Prefix == <<"s", "h", "a", "2", "5", "6", "=">>

\* signature.replace(/^sha256=/, '')
cleanSignature(signature) ==
  IF /\ Len(signature) >= Len(Sha256Prefix)
     /\ SubSeq(signature, 1, Len(Sha256Prefix)) = Sha256Prefix
    THEN SubSeq(signature, Len(Sha256Prefix) + 1, Len(signature))
    ELSE signature

\* generateWebhookSignature(payload, secret)
generateWebhookSignature(payload, secret) ==
  Sha256Prefix \o hmacHex(payload, secret)

\* crypto.timingSafeEqual(a, b): throws for buffers of different length.
timingSafeEqual(a, b) ==
  IF Len(a) # Len(b) THEN "throws" ELSE IF a = b THEN "true" ELSE "false"

\* verifyWebhookSignature that compares the signature as presented.
verifySignatureText_NoStrip(payload, signature, secret) ==
  IF payload = "" \/ signature = <<>> \/ secret = "" THEN FALSE
  ELSE timingSafeEqual(BufferFromHex(signature),
                       BufferFromHex(hmacHex(payload, secret))) = "true"

\* verifyWebhookSignature(payload, signature, secret) on the texts: the
\* catch block turns an exception of timingSafeEqual into false.
verifySignatureText(payload, signature, secret) ==
  IF payload = "" \/ signature = <<>> \/ secret = "" THEN FALSE
  ELSE timingSafeEqual(BufferFromHex(cleanSignature(signature)),
                       BufferFromHex(hmacHex(payload, secret))) = "true"

\* The characters a presented signature may carry after the digest: a hex
\* digit and a character that is none.
Tails ==
  UNION {[1..n -> {"0", "z"}] : n \in 0..MaxExtra}

\* digest with its character at index m (if any) replaced by one that is
\* no hex digit.
Spoil(digest, m) ==
  [i \in 1..Len(digest) |-> IF i = m THEN "z" ELSE digest[i]]

\* The signatures presented: none, or the digest of a payload and a secret,
\* with or without the prefix, cut short, spoilt at an end, or followed by
\* further characters.
Signatures ==
  {<<>>} \cup
  {pre \o Spoil(SubSeq(hmacHex(x, y), 1, 2 * DigestBytes - cut), m) \o tail :
     pre \in {<<>>, Sha256Prefix}, x \in Payloads \ {""}, y \in Secrets \ {""},
     cut \in 0..MaxCut, m \in {0, 1, 2 * DigestBytes}, tail \in Tails}

InitVerify ==
  /\ InitIdle
  /\ call \in {[fn |-> "verifyWebhookSignature", payload |-> x,
                 signature |-> sig, secret |-> y, result |-> FALSE,
                 done |-> FALSE] :
                  x \in Payloads, sig \in Signatures, y \in Secrets}

\* verifyWebhookSignature(payload, signature, secret) returns.
Verify ==
  /\ call.fn = "verifyWebhookSignature" /\ ~call.done
  /\ call' = [call EXCEPT
       !.result = verifySignatureText(call.payload, call.signature, call.secret),
       !.done = TRUE]
  /\ UNCHANGED handlerVars

NextVerify == Verify

\* verifyWebhookSignature on its own, for every payload, secret and
\* presented signature of Payloads, Secrets and Signatures.
SpecVerify == InitVerify /\ [][NextVerify]_vars

\* What a property of the decoded body may be: not there, or a JSON value
\* of one of these kinds.
FieldVals == {"absent", "null", "false", "true", "zero", "number",
              "emptystring", "string", "object"}

\* !value is false.
Truthy(v) == v \in {"true", "number", "string", "object"}

\* A body: the empty text, a text that is no JSON, or the JSON text of a
\* value `top`; characterId, imageUrl and options are the properties of an
\* object.
NoFields == [characterId |-> "absent", imageUrl |-> "absent",
             options |-> "absent"]

Bodies ==
  {[text |-> t, top |-> "none", fields |-> NoFields] :
     t \in {"empty", "nojson"}}
  \cup {[text |-> "json", top |-> v, fields |-> NoFields] :
          v \in {"null", "true", "number", "string", "array"}}
  \cup {[text |-> "json", top |-> "object",
          fields |-> [characterId |-> c, imageUrl |-> u, options |-> o]] :
          c \in FieldVals, u \in FieldVals, o \in {"absent", "object", "string"}}

NoData == [top |-> "none", fields |-> NoFields]

ParseFailure(error) == [success |-> FALSE, error |-> error, data |-> NoData]

\* parseWebhookPayload(body): success, error (which message), data.
\* Reading a property of null throws a TypeError, of any other value that
\* is no object gives undefined.
parseWebhookPayloadText(body) ==
  IF body.text = "empty" THEN ParseFailure("Empty request body")
  ELSE IF body.text = "nojson" THEN ParseFailure("SyntaxError")
  ELSE IF body.top = "null" THEN ParseFailure("TypeError")
  ELSE IF ~Truthy(body.fields.characterId)
    THEN ParseFailure("Missing characterId in payload")
  ELSE IF ~Truthy(body.fields.imageUrl)
    THEN ParseFailure("Missing imageUrl in payload")
  ELSE [success |-> TRUE, error |-> "none",
        data |-> [top |-> body.top, fields |-> body.fields]]

InitParse ==
  /\ InitIdle
  /\ call \in {[fn |-> "parseWebhookPayload", body |-> b,
                 result |-> ParseFailure("unset"), done |-> FALSE] :
                  b \in Bodies}

\* parseWebhookPayload(body) returns.
Parse ==
  /\ call.fn = "parseWebhookPayload" /\ ~call.done
  /\ call' = [call EXCEPT !.result = parseWebhookPayloadText(call.body),
                          !.done = TRUE]
  /\ UNCHANGED handlerVars

NextParse == Parse

\* parseWebhookPayload on its own, for every body of Bodies.
SpecParse == InitParse /\ [][NextParse]_vars

\* createPaddedImage for the target of every ratio key.
paddedImages(w, h) ==
  [k \in RatioKeySet |->
     createPaddedImage(w, h, ASPECT_RATIO_DIMENSIONS[k].width,
                       ASPECT_RATIO_DIMENSIONS[k].height)]

InitVariants ==
  /\ InitIdle
  /\ call \in {[fn |-> "processAllAspectRatios", width |-> d[1],
                 height |-> d[2], ratio |-> "unset", images |-> NoImages,
                 padded |-> paddedImages(1, 1), done |-> FALSE] :
                  d \in DetectInputs}

\* processAllAspectRatios returns the variants of a source of this size,
\* and createPaddedImage the padded image for each of the three targets.
ProcessAll ==
  /\ call.fn = "processAllAspectRatios" /\ ~call.done
  /\ call' = [call EXCEPT
       !.ratio = detectAspectRatio(call.width, call.height),
       !.images = processedImages(<<call.width, call.height>>),
       !.padded = paddedImages(call.width, call.height),
       !.done = TRUE]
  /\ UNCHANGED handlerVars

NextVariants == ProcessAll

\* processAllAspectRatios and createPaddedImage on their own, for every
\* size of DetectInputs.
SpecVariants == InitVariants /\ [][NextVariants]_vars

\* Sources one pixel wide or high, and the sizes named as examples.
StripInputs ==
  {<<n, 1>> : n \in 1..MaxStrip} \cup {<<1, n>> : n \in 1..MaxStrip}
    \cup LiteralCases

InitStrips ==
  /\ InitIdle
  /\ call \in {[fn |-> "processAllAspectRatios", width |-> d[1],
                 height |-> d[2], ratio |-> "unset", images |-> NoImages,
                 padded |-> paddedImages(1, 1), done |-> FALSE] :
                  d \in StripInputs}

\* processAllAspectRatios and createPaddedImage on their own, for long
\* thin sources.
SpecStrips == InitStrips /\ [][NextVariants]_vars

\* ------------------------------------------------ downloadImage in time

\* Time is counted in steps of TickMs milliseconds, MaxTicks of them.
TickMs == 10000

\* The timeout of downloadImage when the request names none.
DefaultTimeout == 30000

\* options.timeout of the request; 0 stands for an absent or zero value.
TimeoutOptions == {0, 10000, 20000, 40000}

\* options.timeout || 30000.
effectiveTimeout(option) == IF option = 0 THEN DefaultTimeout ELSE option

InitDownload ==
  /\ InitIdle
  /\ call \in {[fn |-> "downloadImage", option |-> o,
                 timeout |-> effectiveTimeout(o), now |-> 0,
                 phase |-> "start", timer |-> "none", headersAt |-> 0,
                 error |-> NoMsg, done |-> FALSE] : o \in TimeoutOptions}

\* setTimeout(() => controller.abort(), timeout) and the call of fetch.
StartFetch ==
  /\ call.fn = "downloadImage" /\ call.phase = "start"
  /\ call' = [call EXCEPT !.phase = "fetching", !.timer = "armed"]
  /\ UNCHANGED handlerVars

\* Time passes; a timer that is due fires before time passes further.
TimePasses ==
  /\ call.fn = "downloadImage" /\ ~call.done
  /\ call.now < MaxTicks * TickMs
  /\ call.timer = "armed" => call.now < call.timeout
  /\ call' = [call EXCEPT !.now = call.now + TickMs]
  /\ UNCHANGED handlerVars

\* The armed timer fires: controller.abort() rejects the pending fetch.
TimerFires ==
  /\ call.fn = "downloadImage" /\ call.timer = "armed"
  /\ call.now >= call.timeout
  /\ call' = [call EXCEPT !.timer = "fired", !.phase = "thrown",
                          !.error = DownloadError("abort"), !.done = TRUE]
  /\ UNCHANGED handlerVars

\* fetch resolves with the response headers: clearTimeout, then the test
\* of response.ok; a response that is ok goes on to read its body.
Headers(out) ==
  /\ call.fn = "downloadImage" /\ call.phase = "fetching"
  /\ call' = [call EXCEPT
       !.timer = "cleared", !.headersAt = call.now,
       !.phase = IF out = "buffer" THEN "body" ELSE "thrown",
       !.error = IF out = "buffer" THEN NoMsg ELSE DownloadError(out),
       !.done = (out # "buffer")]
  /\ UNCHANGED handlerVars

\* response.arrayBuffer() resolves and the buffer is returned.
Body ==
  /\ call.fn = "downloadImage" /\ call.phase = "body"
  /\ call' = [call EXCEPT !.phase = "returned", !.done = TRUE]
  /\ UNCHANGED handlerVars

NextDownload ==
  \/ StartFetch
  \/ TimePasses
  \/ TimerFires
  \/ \E out \in DownloadOutcomes \ {"abort"} : Headers(out)
  \/ Body

\* downloadImage on its own against a server that answers when it likes.
SpecDownload == InitDownload /\ [][NextDownload]_vars

\* ------------------------------------------------- the health endpoint
requiredEnvVars == {"SUPABASE_URL", "SUPABASE_SERVICE_ROLE_KEY", "WEBHOOK_SECRET"}

\* heapUsed in MB from which the memory check warns.
HeapWarnMB == 900

\* What the health handler meets: the method, the variables that are not
\* set, whether getSupabaseClient has its client already, the outcome of
\* the test query (an error about the count column counts as success), the
\* outcome of the sharp test, and heapUsed in MB.
HealthInputs ==
  [method : {"GET", "OPTIONS", "POST"}, missing : SUBSET requiredEnvVars,
   cached : BOOLEAN, query : {"ok", "countcolumn", "error"},
   sharp : BOOLEAN, heapUsed : {HeapWarnMB - 1, HeapWarnMB, HeapWarnMB + 1}]

\* healthStatus.checks: the status of each of the four checks.
healthChecks(in) ==
  [environment |-> IF in.missing = {} THEN "healthy" ELSE "unhealthy",
   supabase |->
     IF ~in.cached /\ in.missing \cap {"SUPABASE_URL",
                                        "SUPABASE_SERVICE_ROLE_KEY"} # {}
       THEN "unhealthy"
     ELSE IF in.query = "error" THEN "unhealthy"
     ELSE "healthy",
   sharp |-> IF in.sharp THEN "healthy" ELSE "unhealthy",
   memory |-> IF in.heapUsed < HeapWarnMB THEN "healthy" ELSE "warning"]

\* An overall status that looks for a warning first.
overallStatus_WarningFirst(checks) ==
  IF \E c \in DOMAIN checks : checks[c] = "warning" THEN "warning"
  ELSE IF \E c \in DOMAIN checks : checks[c] = "unhealthy" THEN "unhealthy"
  ELSE "healthy"

\* healthStatus.status after lines 129-138.
overallStatus(checks) ==
  IF \E c \in DOMAIN checks : checks[c] = "unhealthy" THEN "unhealthy"
  ELSE IF \E c \in DOMAIN checks : checks[c] = "warning" THEN "warning"
  ELSE "healthy"

\* httpStatus, lines 143-144.
httpStatus(status) ==
  IF status = "healthy" THEN 200 ELSE IF status = "warning" THEN 200 ELSE 503

NoChecks == [environment |-> "none", supabase |-> "none", sharp |-> "none",
             memory |-> "none"]

\* The answer of the health handler: the HTTP status, the checks and the
\* overall status in the body.
healthHandler(in) ==
  IF in.method = "OPTIONS"
    THEN [code |-> 200, body |-> "none", checks |-> NoChecks, status |-> "none"]
  ELSE IF in.method # "GET"
    THEN [code |-> 405, body |-> "error", checks |-> NoChecks, status |-> "none"]
  ELSE [code |-> httpStatus(overallStatus(healthChecks(in))),
        body |-> "success", checks |-> healthChecks(in),
        status |-> overallStatus(healthChecks(in))]

InitHealth ==
  /\ InitIdle
  /\ call \in {[fn |-> "health", in |-> i,
                 result |-> [code |-> 0, body |-> "none", checks |-> NoChecks,
                             status |-> "none"],
                 done |-> FALSE] : i \in HealthInputs}

\* The health handler answers.
Health ==
  /\ call.fn = "health" /\ ~call.done
  /\ call' = [call EXCEPT !.result = healthHandler(call.in), !.done = TRUE]
  /\ UNCHANGED handlerVars

NextHealth == Health

\* The health endpoint on its own, for every input of HealthInputs.
SpecHealth == InitHealth /\ [][NextHealth]_vars

\* -------------------------------------------------------------- claims
Last(q) == q[Len(q)]

\* Job j has answered with an error after its payload was parsed.
FailedJob(j) ==
  pc[j] = "done" /\ characterId[j] /\ resp[j].body = "error"

\* The size of the variant for ratio key r equals its target's.
ExactSize(img, r) ==
  /\ img.width = ASPECT_RATIO_DIMENSIONS[r].width
  /\ img.height = ASPECT_RATIO_DIMENSIONS[r].height

\* C1 as stated: the status values a job persists are a prefix of
\* processing followed by one of completed or failed.
C1_Original ==
  \A j \in Jobs :
    Persisted(j) \in {<<>>, <<"processing">>, <<"processing", "completed">>,
                      <<"processing", "failed">>}

\* C1 amended: the status values a job persists are a prefix of processing
\* followed by one of completed or failed, or failed alone when the store
\* rejected the processing write; in either case nothing is persisted after
\* completed or failed.
C1_StatusSequence ==
  \A j \in Jobs :
    Persisted(j) \in {<<>>, <<"processing">>, <<"processing", "completed">>,
                      <<"processing", "failed">>, <<"failed">>}

C1_Witness ==
  \E j \in Jobs : pc[j] = "done" /\ Persisted(j) = <<"failed">>

\* C2 as stated: on every failure path of a job with a parsed payload the
\* persisted status is failed with a non-empty cause when the error
\* response is produced, whatever the record store does.
C2_Original ==
  \A j \in Jobs :
    FailedJob(j) => rec.status = "failed" /\ rec.error # NoMsg

\* C2 amended: on every failure path of a job with a parsed payload the
\* last status write awaited before the error response asks for failed
\* with a non-empty cause; the record then holds failed with that cause if
\* the store accepted that write, and is left as it was if the store
\* rejected it.
C2_FailedBeforeResponse ==
  \A j \in Jobs :
    FailedJob(j) =>
      /\ log[j] # <<>>
      /\ Last(log[j]).status = "failed"
      /\ Last(log[j]).cause # NoMsg
      /\ Last(log[j]).ok =>
           rec.status = "failed" /\ rec.error = Last(log[j]).cause
      /\ ~Last(log[j]).ok => rec.status # "failed"

C2_Witness ==
  \E j \in Jobs : FailedJob(j) /\ ~Last(log[j]).ok /\ rec.status = "processing"

\* Job j is done and one of its uploads was rejected.
UploadFailed(j) ==
  pc[j] = "done" /\ \E k \in OutKeys : up[j][k] = "failed"

\* What holds of a job with a rejected upload whether or not the failed
\* status reaches the record: the cause handed to the record store is that
\* of the first rejected upload, the record's URLs are untouched, no update of the
\* record, no cleanup and no removal is issued, and the files of the
\* uploads that went through are in the object store.
UploadFailureFrame(j) ==
  /\ log[j] # <<>>
  /\ Last(log[j]).status = "failed"
  /\ Last(log[j]).cause.kind = "upload"
  /\ Last(log[j]).cause.key \in OutKeys
  /\ up[j][Last(log[j]).cause.key] = "failed"
  /\ Last(log[j]).cause = firstFail[j]
  /\ rec.urls = NoUrls
  /\ eff[j] \cap {"update", "cleanup", "remove"} = {}
  /\ \A k \in OutKeys : up[j][k] = "ok" => Path(k, ts[j]) \in FilePaths

\* C3 as stated: a job one of whose uploads is rejected is marked failed
\* with that upload's cause, the record's URLs are not updated, and the
\* files already uploaded stay, with no delete issued.
C3_Original ==
  \A j \in Jobs :
    UploadFailed(j) =>
      /\ UploadFailureFrame(j)
      /\ rec.status = "failed"
      /\ rec.error = Last(log[j]).cause

\* C3 amended: a job one of whose uploads is rejected asks the record
\* store to mark it failed with that upload's cause, and the record holds
\* failed with that cause unless the store rejects this write; the record's
\* URLs are not updated, and the files already uploaded stay, with no
\* delete issued.
C3_UploadBarrier ==
  \A j \in Jobs :
    UploadFailed(j) =>
      /\ UploadFailureFrame(j)
      /\ Last(log[j]).ok =>
           rec.status = "failed" /\ rec.error = Last(log[j]).cause

C3_Witness ==
  \E j \in Jobs :
    /\ UploadFailed(j)
    /\ rec.status = "failed"
    /\ \E k \in OutKeys : up[j][k] = "ok" /\ Path(k, ts[j]) \in FilePaths

\* C4: a job persists completed only after its three uploads went through,
\* and with completed the record holds the three URLs of that job's
\* uploads and the class detected for its source.
C4_CompletedAfterUploads ==
  /\ \A j \in Jobs :
       (\E i \in 1..Len(log[j]) : log[j][i].status = "completed" /\ log[j][i].ok)
         => \A k \in OutKeys : up[j][k] = "ok"
  /\ rec.status = "completed" =>
       \E j \in Jobs :
         /\ \A k \in OutKeys :
              /\ rec.urls[k] = Path(k, ts[j])
              /\ \E f \in files : f.key = k /\ f.ts = ts[j] /\ f.by = j
         /\ rec.orig = detectAspectRatio(src[j][1], src[j][2])

C4_Witness ==
  /\ rec.status = "completed"
  /\ \A k \in OutKeys : rec.urls[k] # NoPath

\* The request fails header validation, has no usable body, finds no
\* secret configured, fails signature verification or fails parsing.
Unacceptable(r) ==
  \/ ~r.ctype
  \/ r.sig # "good"
  \/ r.body = "none"
  \/ ~r.secret
  \/ r.body = "object" /\ ~r.canon
  \/ r.content # "ok"

\* C5: a POST request that is unacceptable is answered at once and causes
\* no call to the record store, the network or the object store.
C5_RejectedNoEffect ==
  \A j \in Jobs :
    (req[j].method = "POST" /\ Unacceptable(req[j])) =>
      /\ pc[j] = "done"
      /\ resp[j].body = "error"
      /\ ~characterId[j]
      /\ eff[j] = {}
      /\ log[j] = <<>>
      /\ cl[j] = "none"
      /\ rec = InitRec
      /\ files = OldFiles

C5_Witness ==
  \E j \in Jobs :
    /\ req[j].method = "POST"
    /\ req[j].sig = "good"
    /\ req[j].content = "noid"
    /\ resp[j].code = 400
    /\ eff[j] = {}

\* C6 as stated: every job that was started has its cleanup scheduled,
\* whether it ends completed or failed.
C6_Original ==
  \A j \in Jobs :
    (pc[j] = "done" /\ characterId[j]) => "cleanup" \in eff[j]

\* C6 amended: the cleanup is scheduled for exactly the jobs whose record
\* update went through (those answered 200); a job that fails schedules no
\* cleanup.
C6_CleanupOnSuccessOnly ==
  \A j \in Jobs :
    /\ (pc[j] = "done" /\ characterId[j]) =>
         (("cleanup" \in eff[j]) <=> (resp[j].code = 200))
    /\ (cl[j] # "none") <=> ("cleanup" \in eff[j])

C6_Witness ==
  \E j \in Jobs :
    pc[j] = "done" /\ resp[j].code = 200 /\ "cleanup" \in eff[j] /\ cl[j] = "done"

\* C7: the response is there when the cleanup is scheduled, before the
\* cleanup has made any step, and no step of a cleanup, failed or not,
\* changes the record, a response or a handler's position.
C7_CleanupDetached ==
  /\ [](\A j \in Jobs : cl[j] # "none" => pc[j] = "done" /\ resp[j].code = 200)
  /\ [][\A j \in Jobs :
          (cl[j] \in {"list", "remove"} /\ cl'[j] # cl[j]) =>
            (rec' = rec /\ resp' = resp /\ pc' = pc /\ log' = log)]_vars

C7_Witness ==
  \E j \in Jobs :
    /\ cl[j] = "done"
    /\ resp[j].code = 200
    /\ rec.status = "completed"
    /\ budget < MaxFaultsOne

\* C8 as stated: two runs for the entity never produce the same storage
\* path, also when they read the same clock value, and no stored file is
\* overwritten.
C8_Original ==
  /\ \A i, j \in Jobs :
       (i # j /\ ts[i] # 0 /\ ts[j] # 0) =>
         \A k \in OutKeys : Path(k, ts[i]) # Path(k, ts[j])
  /\ \A f, g \in files : (f.key = g.key /\ f.ts = g.ts) => f = g

\* C9 as stated: every variant produced has exactly the size of its
\* target, on the same-ratio path and on the pad path.
C9_Original ==
  \A j \in Jobs : \A r \in RatioKeySet :
    images[j][outputKey(r)].ok => ExactSize(images[j][outputKey(r)], r)

\* C10 as stated: a POST with a bad signature or with no signature header
\* is answered 401.
C10_Original ==
  \A j \in Jobs :
    (pc[j] = "done" /\ req[j].method = "POST" /\ req[j].sig \in {"none", "bad"})
      => resp[j].code = 401

\* C10 amended: a POST with a bad signature is answered 401 provided its
\* content type is JSON, its body is usable and the webhook secret is
\* configured; a POST with no signature header is answered 400.
C10_SignatureStatus ==
  \A j \in Jobs :
    (pc[j] = "done" /\ req[j].method = "POST") =>
      /\ req[j].sig = "none" => resp[j].code = 400
      /\ (req[j].sig = "bad" /\ req[j].ctype /\ req[j].body # "none"
            /\ req[j].secret) => resp[j].code = 401

C10_Witness ==
  \E j \in Jobs :
    /\ pc[j] = "done" /\ req[j].method = "POST"
    /\ req[j].sig = "bad" /\ resp[j].code = 401

\* C11 as stated: a job whose download was aborted by the timeout ends
\* failed and answers 408.
C11_Original ==
  \A j \in Jobs :
    (pc[j] = "done" /\ err[j] = DownloadError("abort"))
      => (rec.status = "failed" /\ resp[j].code = 408)

\* C12 as stated: a job that fails in the transform, in an upload or in the
\* record update answers 500 (or 503), whatever the text of the error.
C12_Original ==
  \A j \in Jobs :
    (pc[j] = "done" /\ err[j].kind \in {"transform", "upload", "update"})
      => resp[j].code \in {500, 503}

\* The lookup of job j's entity has failed.
LookupFailed(j) ==
  \/ pc[j] = "w_notfound"
  \/ \E i \in 1..Len(log[j]) : log[j][i].cause.kind = "notfound"

\* Job j has not got as far as the download.
NothingAfterLookup(j) ==
  /\ eff[j] \cap {"download", "upload", "update", "cleanup", "remove"} = {}
  /\ imageBuffer[j] = <<>> /\ src[j] = <<0, 0>> /\ images[j] = NoImages
  /\ urls[j] = {} /\ cl[j] = "none"

\* The early failed write of job j with a cause of this kind.
EarlyWrite(j, kind) ==
  log[j][CHOOSE i \in 1..Len(log[j]) : log[j][i].cause.kind = kind]

\* What job j has done once its early failed write with a cause of this
\* kind has settled: the answer of the early return if the store accepted
\* the write, the catch block's second write and answer if it did not.
EarlyFailure(j, kind, code) ==
  IF EarlyWrite(j, kind).ok
    THEN /\ Last(log[j]) = EarlyWrite(j, kind)
         /\ rec.status = "failed" /\ rec.error.kind = kind
         /\ resp[j].code = code
    ELSE /\ err[j].kind = "status"
         /\ Last(log[j]).status = "failed" /\ Last(log[j]).cause = err[j]
         /\ Last(log[j]).ok => (rec.status = "failed" /\ rec.error = err[j])
         /\ resp[j].code = CatchStatusCode(err[j])

\* C13 as stated: a job whose entity does not exist ends failed with the
\* not-found cause, answers 404, and does nothing after the lookup.
C13_Original ==
  \A j \in Jobs :
    LookupFailed(j) =>
      /\ NothingAfterLookup(j)
      /\ pc[j] = "done" =>
            /\ rec.status = "failed" /\ rec.error.kind = "notfound"
            /\ resp[j].code = 404

\* C13: a job whose entity lookup fails does nothing after the lookup: no
\* download, transform, upload, record update or cleanup.  It asks the
\* store to mark it failed with the not-found cause; if the store accepts,
\* the job is failed with that cause and answers 404, and if the store
\* rejects, the catch block writes failed with the store's error as the
\* cause and answers with the status code of that error's text.
C13_NotFoundStops ==
  \A j \in Jobs :
    LookupFailed(j) =>
      /\ NothingAfterLookup(j)
      /\ pc[j] = "done" => EarlyFailure(j, "notfound", 404)

C13_Witness ==
  \E j \in Jobs :
    /\ pc[j] = "done" /\ LookupFailed(j)
    /\ rec.status = "failed" /\ rec.error.kind = "notfound"
    /\ resp[j].code = 404

\* Job j's download has delivered a buffer.
Downloaded(j) ==
  "download" \in eff[j] /\ pc[j] # "download" /\ err[j].kind # "download"

\* sig is a prefix of buf.
Prefix(sig, buf) ==
  Len(sig) <= Len(buf) /\ SubSeq(buf, 1, Len(sig)) = sig

\* buf is empty or starts with none of the four signatures.
NoSignature(buf) ==
  buf = <<>> \/ \A f \in DOMAIN signatures : ~Prefix(signatures[f], buf)

\* The first format, in the order jpeg, png, webp, gif, whose signature buf
\* starts with.
FirstFormat(buf) ==
  FormatOrder[CHOOSE i \in 1..Len(FormatOrder) :
    /\ Prefix(signatures[FormatOrder[i]], buf)
    /\ \A k \in 1..(i - 1) : ~Prefix(signatures[FormatOrder[k]], buf)]

\* Job j has not got as far as the metadata read.
StoppedAtValidation(j) ==
  /\ eff[j] \cap {"upload", "update", "cleanup", "remove"} = {}
  /\ pc[j] \notin {"metadata", "process", "uploads", "w_update"}
  /\ src[j] = <<0, 0>> /\ images[j] = NoImages /\ urls[j] = {}
  /\ cl[j] = "none"

\* The verdict on a valid buffer: its format, and the job goes on.
ValidVerdict(j) ==
  /\ validateImageBuffer(imageBuffer[j]).valid
  /\ validateImageBuffer(imageBuffer[j]).format = FirstFormat(imageBuffer[j])
  /\ pc[j] # "w_invalid"
  /\ \A i \in 1..Len(log[j]) : log[j][i].cause.kind # "invalidimage"

\* C14 as stated: a job whose buffer is empty or has no known signature
\* ends failed with the invalid-image cause, answers 400 and stops before
\* the metadata read; any other buffer is reported as the first matching
\* format in the order jpeg, png, webp, gif.
C14_Original ==
  \A j \in Jobs :
    Downloaded(j) =>
      IF NoSignature(imageBuffer[j])
        THEN /\ ~validateImageBuffer(imageBuffer[j]).valid
             /\ StoppedAtValidation(j)
             /\ pc[j] = "done" =>
                   /\ rec.status = "failed" /\ rec.error.kind = "invalidimage"
                   /\ resp[j].code = 400
        ELSE ValidVerdict(j)

\* C14: a job whose buffer is empty or has no known signature stops before
\* the metadata read, the transform and the uploads.  It asks the store to
\* mark it failed with the invalid-image cause; if the store accepts, the
\* job is failed with that cause and answers 400, and if the store
\* rejects, the catch block writes failed with the store's error as the
\* cause and answers with the status code of that error's text.  Any other
\* buffer is reported as the first matching format in the order jpeg, png,
\* webp, gif.
C14_InvalidStops ==
  \A j \in Jobs :
    Downloaded(j) =>
      IF NoSignature(imageBuffer[j])
        THEN /\ ~validateImageBuffer(imageBuffer[j]).valid
             /\ StoppedAtValidation(j)
             /\ pc[j] = "done" => EarlyFailure(j, "invalidimage", 400)
        ELSE ValidVerdict(j)

C14_Witness ==
  \E j \in Jobs :
    /\ pc[j] = "done" /\ Downloaded(j)
    /\ imageBuffer[j] = <<71, 73, 0>>
    /\ rec.status = "failed" /\ rec.error.kind = "invalidimage"
    /\ resp[j].code = 400

\* The files of the listing that job j's cleanup has selected for removal.
Selected(j, listing) ==
  {f \in listing : Path(f.key, f.ts) \in clRemove'[j]}

\* R leaves out the 3 newest files of the listing: no file of R is among
\* them, every other file is in R, and R is empty for 3 files or fewer.
AllButNewest(listing, R) ==
  /\ R \subseteq listing
  /\ Cardinality(listing) <= 3 => R = {}
  /\ Cardinality(listing) > 3 => Cardinality(listing \ R) = 3
  /\ \A f \in R :
       Cardinality({g \in listing \ {f} : g.created >= f.created}) >= 3
  /\ \A f \in listing \ R :
       Cardinality({g \in listing : g.created > f.created}) < 3

\* Job j's cleanup gets its listing, without error.
ListStep(j) == cl[j] = "list" /\ cl'[j] # "list" /\ budget' = budget

\* Job j's cleanup gets the answer to its remove call.
RemoveStep(j) == cl[j] = "remove" /\ cl'[j] = "done"

\* C20 as stated: a cleanup that lists without error selects exactly the
\* files not among the 3 newest by creation time, none for 3 files or
\* fewer, and these files are deleted.
C20_Original ==
  [][\A j \in Jobs :
       /\ ListStep(j) =>
            /\ AllButNewest(files, Selected(j, files))
            /\ Selected(j, files) = {} => cl'[j] = "done"
       /\ RemoveStep(j) =>
            files' = {f \in files : Path(f.key, f.ts) \notin clRemove[j]}]_vars

\* C20: a cleanup that lists without error asks the object store to remove
\* exactly the files of the listing that are not among the 3 newest by
\* creation time, never one of the 3 newest, and makes no remove call when
\* 3 or fewer files are listed.  The files are deleted if the remove call
\* succeeds; if it fails, nothing is deleted.
C20_CleanupKeepsNewest ==
  [][\A j \in Jobs :
       /\ ListStep(j) =>
            /\ AllButNewest(files, Selected(j, files))
            /\ Selected(j, files) = {} => cl'[j] = "done"
            /\ files' = files
       /\ RemoveStep(j) =>
            IF budget' = budget
              THEN files' = {f \in files : Path(f.key, f.ts) \notin clRemove[j]}
              ELSE files' = files]_vars

C20_Witness ==
  \E j \in Jobs :
    /\ cl[j] = "done" /\ clRemove[j] # {}
    /\ clRemove[j] \cap FilePaths = {}
    /\ Cardinality(files) = 3

\* |width/height - n/d| < 0.05 in exact arithmetic.
Within(width, height, n, d) ==
  20 * Abs(d * width - n * height) < d * height

\* The reference rule: the first of square, landscape, portrait whose
\* target ratio lies within 0.05 of width/height, else other.
ReferenceClass(width, height) ==
  IF Within(width, height, 1, 1) THEN "1:1"
  ELSE IF Within(width, height, 16, 9) THEN "16:9"
  ELSE IF Within(width, height, 9, 16) THEN "9:16"
  ELSE "other"

\* call is a finished call of fn.
Returned(fn) == call.fn = fn /\ call.done

\* C18 as stated: detectAspectRatio returns one of the four classes for
\* every positive width and height, the class of the reference first-match
\* rule, and the named example sizes get their named classes.
C18_Original ==
  Returned("detectAspectRatio") =>
    /\ call.ratio \in {"1:1", "16:9", "9:16", "other"}
    /\ call.ratio = ReferenceClass(call.width, call.height)
    /\ <<call.width, call.height>> = <<1024, 1024>> => call.ratio = "1:1"
    /\ <<call.width, call.height>> = <<1920, 1080>> => call.ratio = "16:9"
    /\ <<call.width, call.height>> = <<1080, 1920>> => call.ratio = "9:16"
    /\ <<call.width, call.height>> = <<800, 801>> => call.ratio = "1:1"
    /\ <<call.width, call.height>> = <<1000, 400>> => call.ratio = "other"

\* C19: detectAspectRatio(w, h) = detectAspectRatio(k * w, k * h) for all
\* positive integers w, h and k.
C19_ScaleInvariant ==
  Returned("detectAspectRatio") => call.ratio = call.scaled

C19_Witness ==
  /\ Returned("detectAspectRatio")
  /\ call.width = 311 /\ call.height = 180 /\ call.k = MaxScale
  /\ call.ratio = "16:9" /\ call.scaled = "16:9"

\* C15: for a non-empty payload and a non-empty secret, the signature that
\* generateWebhookSignature makes verifies, and so does its hex digest
\* without the sha256= prefix.
C15_SignRoundTrip ==
  ( /\ Returned("verifyWebhookSignature")
    /\ call.payload # "" /\ call.secret # ""
    /\ \/ call.signature = generateWebhookSignature(call.payload, call.secret)
       \/ call.signature = hmacHex(call.payload, call.secret) )
  => call.result = TRUE

C15_Witness ==
  /\ Returned("verifyWebhookSignature")
  /\ call.payload = "q" /\ call.secret = "s"
  /\ call.signature = hmacHex("q", "s")
  /\ call.result = TRUE

\* text is the hex encoding of a 32-byte digest, with or without the
\* sha256= prefix: 64 hex digits and nothing else.
WellFormedDigest(text) ==
  /\ Len(cleanSignature(text)) = 64
  /\ \A i \in 1..Len(cleanSignature(text)) : IsHex(cleanSignature(text)[i])

\* C16 as stated: verifyWebhookSignature returns false, without throwing,
\* when the payload, the signature or the secret is empty, and when the
\* presented signature is not the hex encoding of a 32-byte digest (wrong
\* length, a character that is no hex digit, or a digest followed by
\* further characters).
C16_Original ==
  ( /\ Returned("verifyWebhookSignature")
    /\ \/ call.payload = "" \/ call.signature = <<>> \/ call.secret = ""
       \/ ~WellFormedDigest(call.signature) )
  => call.result = FALSE

\* The body decodes as an object.
DecodesAsObject(body) == body.text = "json" /\ body.top = "object"

\* The property is missing or empty.
MissingOrEmpty(v) == v \in {"absent", "null", "emptystring"}

\* C17 as stated: parseWebhookPayload succeeds exactly when the body
\* decodes as an object whose characterId and imageUrl are non-empty
\* strings; a body that does not decode gives a malformed-body failure, a
\* missing or empty characterId or imageUrl a failure that names it, and
\* the optional fields pass through unchanged.
C17_Original ==
  Returned("parseWebhookPayload") =>
    /\ call.result.success <=>
         /\ DecodesAsObject(call.body)
         /\ call.body.fields.characterId = "string"
         /\ call.body.fields.imageUrl = "string"
    /\ call.body.text # "json" =>
         call.result.error \in {"Empty request body", "SyntaxError"}
    /\ (DecodesAsObject(call.body)
           /\ MissingOrEmpty(call.body.fields.characterId)) =>
         call.result.error = "Missing characterId in payload"
    /\ (DecodesAsObject(call.body)
           /\ call.body.fields.characterId = "string"
           /\ MissingOrEmpty(call.body.fields.imageUrl)) =>
         call.result.error = "Missing imageUrl in payload"
    /\ call.result.success =>
         call.result.data.fields.options = call.body.fields.options

\* Job j's record update is accepted.
UpdateStep(j) == pc[j] = "w_update" /\ pc'[j] = "done"

\* The URLs of job j's three variants.
OwnUrls(j) == [k \in OutKeys |-> Path(k, ts[j])]

\* The record holds the URLs and the class of job j.
RecordOf(j) ==
  /\ rec.urls = OwnUrls(j)
  /\ rec.orig = detectAspectRatio(src[j][1], src[j][2])

\* C21: the record update is last-write-wins.  An accepted record update of
\* a job sets the three URLs and the class to that job's, no other step
\* changes them, and so after two successful jobs the record holds the
\* URLs and the class of the job that updated last, never a mixture.
C21_LastWriteWins ==
  /\ [][/\ \A j \in Jobs : UpdateStep(j) => RecordOf(j)'
        /\ (\A j \in Jobs : ~UpdateStep(j)) =>
             (rec'.urls = rec.urls /\ rec'.orig = rec.orig)]_vars
  /\ []((\A j \in Jobs : pc[j] = "done" /\ resp[j].code = 200)
          => \E j \in Jobs : RecordOf(j))

C21_Witness ==
  /\ \A j \in Jobs : pc[j] = "done" /\ resp[j].code = 200
  /\ ts[1] < ts[2]
  /\ RecordOf(1) /\ ~RecordOf(2)
  /\ rec.orig = "16:9"

\* Some sub-check of the answer has this status.
SomeCheck(status) ==
  \E c \in DOMAIN call.result.checks : call.result.checks[c] = status

\* C22: the health endpoint reports healthy only if no sub-check is
\* unhealthy; a warning sub-check with no unhealthy one gives the overall
\* status warning with HTTP 200, and any unhealthy sub-check gives the
\* overall status unhealthy with HTTP 503.
C22_HealthStatus ==
  (Returned("health") /\ call.in.method = "GET") =>
    /\ call.result.status = "healthy" =>
         (~SomeCheck("unhealthy") /\ call.result.code = 200)
    /\ (SomeCheck("warning") /\ ~SomeCheck("unhealthy")) =>
         (call.result.status = "warning" /\ call.result.code = 200)
    /\ SomeCheck("unhealthy") =>
         (call.result.status = "unhealthy" /\ call.result.code = 503)

C22_Witness ==
  /\ Returned("health") /\ call.in.method = "GET"
  /\ SomeCheck("warning") /\ SomeCheck("unhealthy")
  /\ call.result.status = "unhealthy" /\ call.result.code = 503

\* The transform of job j has failed.
TransformFailed(j) == err[j].kind = "transform"

\* Job j has started no upload and updated no URL.
NoUploadStarted(j) ==
  /\ eff[j] \cap {"upload", "update", "cleanup", "remove"} = {}
  /\ \A k \in OutKeys : up[j][k] = "none"
  /\ urls[j] = {} /\ rec.urls = NoUrls /\ files = OldFiles

\* C23 as stated: a job whose transform fails starts no upload, leaves the
\* record's URLs alone and ends failed with the processing cause.
C23_Original ==
  \A j \in Jobs :
    TransformFailed(j) =>
      /\ NoUploadStarted(j)
      /\ pc[j] = "done" =>
           (rec.status = "failed" /\ rec.error.kind = "transform")

\* C23: a job whose transform fails starts no upload for any variant and
\* leaves the record's URLs alone; it asks the record store to mark it
\* failed with the processing cause, and the record holds failed with that
\* cause unless the store rejects this write.
C23_TransformAborts ==
  \A j \in Jobs :
    TransformFailed(j) =>
      /\ NoUploadStarted(j)
      /\ pc[j] = "done" =>
           /\ Last(log[j]).status = "failed"
           /\ Last(log[j]).cause = err[j]
           /\ Last(log[j]).ok =>
                (rec.status = "failed" /\ rec.error.kind = "transform")
           /\ resp[j].body = "error"

C23_Witness ==
  \E j \in Jobs :
    /\ pc[j] = "done" /\ TransformFailed(j)
    /\ rec.status = "failed" /\ rec.error.kind = "transform"
    /\ images[j] = NoImages

\* Job j's handler starts its uploads.
StartStep(j) == pc[j] = "process" /\ pc'[j] = "uploads"

\* An upload of job j settles after the handler has left the barrier with
\* a failure.
LateStep(j) == pc[j] \in {"w_catch", "done"} /\ up'[j] # up[j]

\* What the uploads of a job do to the rest: all three are pending when
\* the handler starts to wait, and one that settles after the barrier has
\* thrown changes neither the record nor the job's writes and answer.
UploadsConcurrent ==
  \A j \in Jobs :
    /\ StartStep(j) => \A k \in OutKeys : up'[j][k] = "pending"
    /\ LateStep(j) =>
         (rec' = rec /\ log' = log /\ resp' = resp /\ pc' = pc /\ err' = err)

\* C24 as stated: the three uploads start together, the first failure
\* fixes the job as failed with that failure's cause, and an upload that
\* settles later changes neither the status nor the URLs.
C24_Original ==
  /\ [][UploadsConcurrent]_vars
  /\ [](\A j \in Jobs :
          UploadFailed(j) =>
            (rec.status = "failed" /\ rec.error = firstFail[j]))

\* C24: the three uploads of a job are started before any is awaited.  On
\* the first upload failure the handler leaves the barrier and asks the
\* record store to mark the job failed with that first failure's cause (the
\* record holds it unless the store rejects this write); the other
\* uploads are not cancelled and settle on their own, and their settling
\* changes neither the persisted status nor the record's URLs.
C24_FirstFailureWins ==
  /\ [][UploadsConcurrent]_vars
  /\ [](\A j \in Jobs :
          UploadFailed(j) =>
            /\ Last(log[j]).status = "failed"
            /\ Last(log[j]).cause = firstFail[j]
            /\ rec.urls = NoUrls
            /\ Last(log[j]).ok =>
                 (rec.status = "failed" /\ rec.error = firstFail[j]))

C24_Witness ==
  \E j \in Jobs :
    /\ pc[j] = "done" /\ rec.status = "failed" /\ rec.error = firstFail[j]
    /\ \E k \in OutKeys : up[j][k] = "failed"
    /\ \E k \in OutKeys : up[j][k] = "pending"

\* The ratio keys whose variant is made on the fit-only path.
FitOnly == {k \in RatioKeySet : ~call.images[outputKey(k)].padded}

\* C25: the variant of a target is made on the fit-only path exactly when
\* the detected class of the source is the target's ratio key, and on the
\* pad path otherwise: one fit-only and two padded variants for a source
\* classified square, landscape or portrait, three padded ones for a
\* source classified other; 1920x1080 is landscape, its landscape variant
\* fit-only and its square and portrait variants padded.
C25_PathSelection ==
  Returned("processAllAspectRatios") =>
    /\ \A k \in RatioKeySet : k \in FitOnly <=> call.ratio = k
    /\ call.ratio \in RatioKeySet =>
         (Cardinality(FitOnly) = 1 /\ Cardinality(RatioKeySet \ FitOnly) = 2)
    /\ call.ratio = "other" => Cardinality(RatioKeySet \ FitOnly) = 3
    /\ <<call.width, call.height>> = <<1920, 1080>> =>
         (call.ratio = "16:9" /\ FitOnly = {"16:9"})

C25_Witness ==
  /\ Returned("processAllAspectRatios")
  /\ call.width = 1920 /\ call.height = 1080
  /\ ~call.images["16x9"].padded
  /\ call.images["1x1"].padded /\ call.images["9x16"].padded

\* The margin left over on the far side of an offset.
FarMargin(target, size, offset) == target - size - offset

\* C26: on the pad path the resized image is centred on the canvas: the
\* left offset and the right margin differ by at most one pixel, likewise
\* the top offset and the bottom margin, and no offset or margin is
\* negative, so the composited region lies inside the canvas.
C26_Centred ==
  Returned("processAllAspectRatios") =>
    \A k \in RatioKeySet :
      LET p == call.padded[k] IN
      p.ok =>
        /\ p.left = RoundDiv(p.width - p.newWidth, 2)
        /\ p.top = RoundDiv(p.height - p.newHeight, 2)
        /\ p.left >= 0 /\ p.top >= 0
        /\ FarMargin(p.width, p.newWidth, p.left) >= 0
        /\ FarMargin(p.height, p.newHeight, p.top) >= 0
        /\ Abs(p.left - FarMargin(p.width, p.newWidth, p.left)) <= 1
        /\ Abs(p.top - FarMargin(p.height, p.newHeight, p.top)) <= 1
        /\ p.width = ASPECT_RATIO_DIMENSIONS[k].width
        /\ p.height = ASPECT_RATIO_DIMENSIONS[k].height

C26_Witness ==
  /\ Returned("processAllAspectRatios")
  /\ call.padded["1:1"].ok
  /\ call.padded["1:1"].top
       = FarMargin(1024, call.padded["1:1"].newHeight, call.padded["1:1"].top) + 1

\* The download has ended: the buffer was returned or an error thrown.
DownloadEnded == call.phase \in {"returned", "thrown"}

\* C27 as stated: the download is bounded by its timeout (30000 ms unless
\* options.timeout overrides it): once the timeout has elapsed and the
\* source has not been received in full, headers and body, the download
\* has been aborted and is no longer waiting.
C27_Original ==
  /\ (call.fn = "downloadImage" /\ call.option = 0)
       => call.timeout = DefaultTimeout
  /\ (call.fn = "downloadImage" /\ call.option # 0)
       => call.timeout = call.option
  /\ (call.fn = "downloadImage" /\ call.now >= call.timeout + TickMs)
       => DownloadEnded

\* The requests that are not POST requests.
NonPost(j) == req[j] # NoReq /\ req[j].method # "POST"

\* C28: only POST requests start the pipeline.  An OPTIONS request is
\* answered 200 with the CORS headers and any other non-POST method 405,
\* whatever its content type, signature, body and the configured secret;
\* neither calls a collaborator, writes the record or touches the files.
C28_OnlyPostStarts ==
  \A j \in Jobs :
    /\ (pc[j] \notin {"idle", "done"} \/ eff[j] # {}) => req[j].method = "POST"
    /\ NonPost(j) =>
         /\ pc[j] = "done"
         /\ resp[j] = IF req[j].method = "OPTIONS"
                        THEN [code |-> 200, body |-> "none", statusCode |-> 0,
                              cors |-> TRUE, urls |-> NoUrls]
                        ELSE ErrorResp(405, 405)
         /\ eff[j] = {} /\ ~characterId[j]
         /\ imageBuffer[j] = <<>> /\ up[j] = [k \in OutKeys |-> "none"]
         /\ log[j] = <<>>
         /\ (\A i \in Jobs \ {j} : pc[i] = "idle")
              => (rec = InitRec /\ files = OldFiles)

C28_Witness ==
  /\ NonPost(1) /\ ~NonPost(2)
  /\ req[1].method = "GET" /\ ~req[1].ctype /\ req[1].sig = "bad"
  /\ ~req[1].secret
  /\ resp[1].code = 405 /\ log[1] = <<>> /\ rec = InitRec

\* C29 as stated: with two jobs for the entity interleaved with their
\* cleanup tasks, every variant URL a completed job has stored on the
\* record names a file that is still in the object store: no cleanup
\* removes a file the record references.
C29_Original ==
  rec.urls # NoUrls => \A k \in OutKeys : rec.urls[k] \in FilePaths

\* C30 as stated: in every failure response of the process handler the
\* statusCode field of the JSON body equals the HTTP status code of the
\* response.
C30_Original ==
  \A j \in Jobs :
    resp[j].body = "error" => resp[j].statusCode = resp[j].code

\* C31 as stated: after any sequence of jobs for the entity, whenever the
\* persisted status is completed the persisted error message is empty: a
\* successful job clears the cause an earlier failed job has left.
C31_Original ==
  rec.status = "completed" => rec.error = NoMsg

\* C32 as stated: on the pad path, for every source of positive integer
\* dimensions and every target, the resized dimensions round(w * scale) and
\* round(h * scale), scale = min(targetWidth / w, targetHeight / h), are
\* each at least 1 and at most the target's, and one of them equals the
\* target's.
C32_Original ==
  Returned("processAllAspectRatios") =>
    \A k \in RatioKeySet :
      LET p == call.padded[k]
          t == ASPECT_RATIO_DIMENSIONS[k] IN
      /\ p.newWidth >= 1 /\ p.newHeight >= 1
      /\ p.newWidth <= t.width /\ p.newHeight <= t.height
      /\ (p.newWidth = t.width \/ p.newHeight = t.height)

\* The record store has accepted job j's update to completed.
UpdateAccepted(j) ==
  \E i \in 1..Len(log[j]) : log[j][i] = Write("completed", NoMsg, TRUE)

\* The handler has answered job j with HTTP 200 and success true.
Succeeded(j) == resp[j].code = 200 /\ resp[j].body = "success"

\* C33: the handler answers HTTP 200 with success true if and only if all
\* three uploads of that request succeeded and its record update to
\* completed succeeded; the URL map of that answer has exactly the keys
\* 1x1, 16x9 and 9x16, each with the URL its own variant's upload returned.
C33_SuccessIff ==
  \A j \in Jobs :
    /\ Succeeded(j) <=>
         ((\A k \in OutKeys : up[j][k] = "ok") /\ UpdateAccepted(j))
    /\ resp[j].body = "success" => resp[j].code = 200
    /\ Succeeded(j) =>
         /\ pc[j] = "done"
         /\ DOMAIN resp[j].urls = {"1x1", "16x9", "9x16"}
         /\ \A k \in OutKeys : resp[j].urls[k] = Path(k, ts[j])

C33_Witness ==
  /\ Succeeded(1)
  /\ \A k \in OutKeys : up[1][k] = "ok" /\ resp[1].urls[k] = Path(k, ts[1])
  /\ UpdateAccepted(1)

\* A POST with valid headers and a body that is not empty, whose signature
\* header is the HMAC-SHA256 of the bytes sent, under the configured secret.
SignedPost(j) ==
  /\ req[j].method = "POST" /\ req[j].ctype /\ req[j].secret
  /\ req[j].sig = "good"
  /\ req[j].body \in {"string", "buffer", "object"}
  /\ req[j].content # "empty"

\* C34 as stated: a POST whose signature header is the HMAC-SHA256 of the
\* raw request body bytes under the configured secret passes the
\* handler's signature verification, whether the body is delivered as a
\* string, as a buffer or as an already-parsed object.
C34_Original ==
  \A j \in Jobs :
    (SignedPost(j) /\ pc[j] # "idle") =>
      /\ verifyWebhookSignature(rawBody(req[j]), req[j].sig, req[j].secret)
      /\ resp[j].code # 401

====
